---- MODULE Spec2Model ----
(***************************************************************************)
(* Foodgram backend: the relation registry (Favorite, ShoppingCart,        *)
(* Follower), the per-user flags of the recipe representation, the         *)
(* shopping-cart download and the recipe short link, as state machines     *)
(* over the persistent store.  Every request is a process whose steps are  *)
(* its store calls: the project runs Django in autocommit mode (settings   *)
(* set no ATOMIC_REQUESTS and the views open no transaction), so other     *)
(* requests may run between two store calls of one handler.                *)
(***************************************************************************)
EXTENDS Integers, Sequences, FiniteSets, TLC

(* ---------------------------------------------------------------- bounds *)
NumUsers == 2
NumRecipes == 2
NumTargets == 1
MaxReq == 2

\* the writes in a row that the store may refuse
MaxRefusals == 6


Anon == 0
Users == 1..NumUsers
RecipeIds == 1..NumRecipes
Slots == 1..MaxReq
\* the recipes that the relation requests of a run address
Targets == 1..NumTargets

VARIABLES
    recipes,        \* Recipe rows: id -> [author, name, cooking_time, short_link]
    recipe_seq,     \* the last primary key given to a Recipe row
    recipe_ingredients, \* RecipeIngredient rows: [recipe, ingredient, amount]
    recipe_tags,    \* rows of Recipe.tags: <<recipe, tag>>
    favorite,       \* Favorite rows: <<author, recipe>> -> number of rows
    shopping_cart,  \* ShoppingCart rows: <<author, recipe>> -> number of rows
    follower,       \* Follower rows: <<follower, followed>> -> number of rows
    reqs            \* requests: slot -> request record (handler position, response)

vars ==
    <<recipes, recipe_seq, recipe_ingredients, recipe_tags,
      favorite, shopping_cart, follower, reqs>>

\* the tables of the recipes and their ingredient lines
recipe_tables == <<recipes, recipe_seq, recipe_ingredients, recipe_tags>>

(* ------------------------------------------------------------ the store *)
\* The ingredient catalogue (static reference data): id -> name and unit,
\* the pair being unique (unique_ingredient_name_unit).
Ingredient ==
    <<[name |-> "flour", measurement_unit |-> "g"],
      [name |-> "sugar", measurement_unit |-> "g"],
      [name |-> "flour", measurement_unit |-> "kg"]>>

IngredientIds == DOMAIN Ingredient

\* The tag catalogue (static reference data).
Tag == <<[slug |-> "lunch"], [slug |-> "dinner"]>>

TagIds == DOMAIN Tag

\* str(User): f"{first_name} {last_name}", which no constraint makes
\* unique; the first two users bear the same names.
FullName(user) == IF user <= 2 THEN "Ann Lee" ELSE "Bob Ray"

\* the names given to recipes
RecipeNames == {"soup", "cake"}

\* The order of the names under ORDER BY name.
NameOrder == <<"flour", "sugar">>

NameRank(name) == CHOOSE k \in DOMAIN NameOrder : NameOrder[k] = name

RelKeys == Users \X RecipeIds
FollowKeys == Users \X Users

NoConstraint(table, key) == TRUE

\* UniqueConstraint(fields=['author', 'recipe']) of UserRecipeRelation.Meta,
\* inherited by Favorite.Meta and ShoppingCart.Meta: an insert of a key that
\* has a row raises IntegrityError.
UserRecipeUnique(table, key) == table[key] = 0

\* Follower.Meta: UniqueConstraint(follower, followed) and the
\* CheckConstraint prevent_self_follow.
FollowerConstraints(table, key) == table[key] = 0 /\ key[1] # key[2]

ExistsNever(table, key) == FALSE

\* QuerySet.filter(...).exists()
Exists(table, key) == table[key] > 0

\* Manager.create(...): the row is added (the constraints are checked by the caller)
InsertRow(table, key) == [table EXCEPT ![key] = @ + 1]

DeleteNothing(table, key) == table

\* QuerySet.filter(...).delete(): every row of the key goes
DeleteRows(table, key) == [table EXCEPT ![key] = 0]

(* ------------------------------------------------------- Recipe.save *)
NoLink == <<>>

\* hashlib.md5(f"{self.author}-{self.name}".encode()).hexdigest()[:8]: a
\* function of the author's names and the recipe's name, equal on equal
\* inputs.
ShortCode(full_name, name) == <<"md5", full_name, name>>

\* short_link = models.URLField(null=True, blank=True): the column has no
\* unique index, so the store refuses no value of it.
ShortLinkUnique == FALSE

\* super().save() raises IntegrityError when a constraint refuses the row.
SaveRaises(rows, id, row) ==
    /\ ShortLinkUnique
    /\ \E other \in DOMAIN rows : other # id /\ rows[other].short_link = row.short_link

\* INSERT of a new row or UPDATE of the row of the primary key
Write(rows, id, row) ==
    [k \in DOMAIN rows \cup {id} |-> IF k = id THEN row ELSE rows[k]]

\* for _ in range(5)
SaveAttempts == 5

AlwaysGenerate(instance) == TRUE

\* if not self.short_link
LacksShortLink(instance) == instance.short_link = NoLink

ExhaustedLate(left) == left = 0 - 2

\* the for loop has run its rounds: its else clause
Exhausted(left) == left = 0

RECURSIVE Generate(_, _, _, _, _)
\* The loop of Recipe.save with `left` rounds to go: every round computes
\* the code from the same author and name and calls super().save(); the
\* round that saves ends the loop, a round that meets IntegrityError resets
\* the link, and the loop's else clause raises ValidationError.  The store
\* refuses the next `refusals` writes whatever they hold.  `attempts` counts
\* the calls of super().save() and `codes` lists the codes they were made
\* with.
Generate(rows, id, instance, left, refusals) ==
    IF Exhausted(left)
    THEN [rows |-> rows, instance |-> [instance EXCEPT !.short_link = NoLink],
          raised |-> "ValidationError", attempts |-> SaveAttempts - left,
          codes |-> <<>>]
    ELSE LET row == [instance EXCEPT
                        !.short_link = ShortCode(FullName(instance.author),
                                                 instance.name)]
         IN IF refusals > 0 \/ SaveRaises(rows, id, row)
            THEN LET rest == Generate(rows, id, instance, left - 1,
                                      IF refusals > 0 THEN refusals - 1 ELSE 0)
                 IN [rest EXCEPT !.codes = <<row.short_link>> \o @]
            ELSE [rows |-> Write(rows, id, row), instance |-> row, raised |-> "",
                  attempts |-> SaveAttempts - left + 1,
                  codes |-> <<row.short_link>>]

\* Recipe.save against a store that refuses the next `refusals` writes: the
\* rows after the call, the instance and what it raised
SaveRefused(rows, id, instance, refusals) ==
    IF LacksShortLink(instance)
    THEN Generate(rows, id, instance, SaveAttempts, refusals)
    ELSE IF refusals > 0 \/ SaveRaises(rows, id, instance)
         THEN [rows |-> rows, instance |-> instance, raised |-> "IntegrityError",
               attempts |-> 1, codes |-> <<>>]
         ELSE [rows |-> Write(rows, id, instance), instance |-> instance,
               raised |-> "", attempts |-> 1, codes |-> <<>>]

\* Recipe.save against a store that refuses a write only by its constraints
Save(rows, id, instance) == SaveRefused(rows, id, instance, 0)

(* ------------------------------------------------------------- requests *)
Idle ==
    [op |-> "none", method |-> "", user |-> Anon, pk |-> 0, pc |-> "idle",
     status |-> 0, detail |-> "", exc |-> "",
     is_favorited |-> FALSE, is_in_shopping_cart |-> FALSE,
     items |-> <<>>, text |-> "", link |-> <<>>,
     short_link |-> <<>>, location |-> "", slugs |-> {}, results |-> <<>>,
     refusals |-> 0, attempts |-> 0, codes |-> <<>>,
     favorited_only |-> FALSE, in_cart_only |-> FALSE,
     body |-> [id |-> 0, author |-> Anon, name |-> "", cooking_time |-> 0,
               tags |-> {}, ingredients |-> {}],
     data |-> [name |-> "", cooking_time |-> 0, tags |-> <<>>, ingredients |-> <<>>],
     instance |-> [author |-> Anon, name |-> "", cooking_time |-> 0,
                   short_link |-> <<>>]]

NewRequest(op, method, user, pk, pc) ==
    [Idle EXCEPT !.op = op, !.method = method, !.user = user, !.pk = pk, !.pc = pc]

Respond(r, status, detail) ==
    [r EXCEPT !.pc = "done", !.status = status, !.detail = detail]

\* permission_classes=(IsAuthenticated,)
IsAuthenticated(user) == user # Anon

At(i, op, method, pc) ==
    /\ reqs[i].op = op
    /\ reqs[i].method = method
    /\ reqs[i].pc = pc

\* A request arrives in the first unused slot, provided at most
\* `inflight` other requests are still running.
CanBegin(i, inflight) ==
    /\ reqs[i].pc = "idle"
    /\ \A j \in Slots : j < i => reqs[j].pc # "idle"
    /\ Cardinality({j \in Slots : reqs[j].pc \notin {"idle", "done"}}) <= inflight

(* ------------------------------------------- RecipeViewSet.favorite *)
\* Dispatch of POST|DELETE /recipes/{pk}/favorite/: the permission check and
\* get_object_or_404(Recipe, id=pk).
BeginFavorite(i, inflight) ==
    /\ CanBegin(i, inflight)
    /\ \E method \in {"POST", "DELETE"}, user \in Users, pk \in Targets :
          LET r == NewRequest("favorite", method, user, pk, "check") IN
          reqs' = [reqs EXCEPT ![i] =
                      IF ~IsAuthenticated(user) THEN Respond(r, 401, "not_authenticated")
                      ELSE IF pk \notin DOMAIN recipes THEN Respond(r, 404, "not_found")
                      ELSE r]
    /\ UNCHANGED <<recipe_tables, favorite, shopping_cart, follower>>

\* if Favorite.objects.filter(author=user, recipe=recipe).exists(): 400
FavoriteExists(i) ==
    /\ At(i, "favorite", "POST", "check")
    /\ LET r == reqs[i] IN
       reqs' = [reqs EXCEPT ![i] =
                   IF Exists(favorite, <<r.user, r.pk>>)
                   THEN Respond(r, 400, "already_exists")
                   ELSE [r EXCEPT !.pc = "create"]]
    /\ UNCHANGED <<recipe_tables, favorite, shopping_cart, follower>>

\* Favorite.objects.create(author=user, recipe=recipe); an IntegrityError
\* is caught nowhere in the view and reaches the client as a server error.
FavoriteCreate(i) ==
    /\ At(i, "favorite", "POST", "create")
    /\ LET r == reqs[i]
           key == <<r.user, r.pk>>
       IN IF UserRecipeUnique(favorite, key)
          THEN /\ favorite' = InsertRow(favorite, key)
               /\ reqs' = [reqs EXCEPT ![i] = Respond(r, 201, "created")]
          ELSE /\ favorite' = favorite
               /\ reqs' = [reqs EXCEPT ![i] =
                              Respond([r EXCEPT !.exc = "IntegrityError"],
                                      500, "IntegrityError")]
    /\ UNCHANGED <<recipe_tables, shopping_cart, follower>>

\* favorite = Favorite.objects.filter(...); if not favorite.exists(): 400
FavoriteDeleteCheck(i) ==
    /\ At(i, "favorite", "DELETE", "check")
    /\ LET r == reqs[i] IN
       reqs' = [reqs EXCEPT ![i] =
                   IF ~Exists(favorite, <<r.user, r.pk>>)
                   THEN Respond(r, 400, "not_found")
                   ELSE [r EXCEPT !.pc = "delete"]]
    /\ UNCHANGED <<recipe_tables, favorite, shopping_cart, follower>>

\* favorite.delete(); 204 whatever the number of rows deleted
FavoriteDelete(i) ==
    /\ At(i, "favorite", "DELETE", "delete")
    /\ LET r == reqs[i] IN
       /\ favorite' = DeleteRows(favorite, <<r.user, r.pk>>)
       /\ reqs' = [reqs EXCEPT ![i] = Respond(r, 204, "no_content")]
    /\ UNCHANGED <<recipe_tables, shopping_cart, follower>>

(* -------------------------------------- RecipeViewSet.shopping_cart *)
BeginShoppingCart(i, inflight) ==
    /\ CanBegin(i, inflight)
    /\ \E method \in {"POST", "DELETE"}, user \in Users, pk \in Targets :
          LET r == NewRequest("shopping_cart", method, user, pk,
                              IF method = "POST" THEN "get" ELSE "delete") IN
          reqs' = [reqs EXCEPT ![i] =
                      IF ~IsAuthenticated(user) THEN Respond(r, 401, "not_authenticated")
                      ELSE IF pk \notin DOMAIN recipes THEN Respond(r, 404, "not_found")
                      ELSE r]
    /\ UNCHANGED <<recipe_tables, favorite, shopping_cart, follower>>

\* get_or_create, first query: self.get(**kwargs); a row found gives
\* (obj, False) and the view answers 400.
ShoppingCartGet(i) ==
    /\ At(i, "shopping_cart", "POST", "get")
    /\ LET r == reqs[i] IN
       reqs' = [reqs EXCEPT ![i] =
                   IF Exists(shopping_cart, <<r.user, r.pk>>)
                   THEN Respond(r, 400, "already_exists")
                   ELSE [r EXCEPT !.pc = "create"]]
    /\ UNCHANGED <<recipe_tables, favorite, shopping_cart, follower>>

\* get_or_create, after DoesNotExist: create(**params) inside a savepoint;
\* an IntegrityError is caught and the row is looked up again.
ShoppingCartCreate(i) ==
    /\ At(i, "shopping_cart", "POST", "create")
    /\ LET r == reqs[i]
           key == <<r.user, r.pk>>
       IN IF UserRecipeUnique(shopping_cart, key)
          THEN /\ shopping_cart' = InsertRow(shopping_cart, key)
               /\ reqs' = [reqs EXCEPT ![i] = Respond(r, 201, "created")]
          ELSE /\ shopping_cart' = shopping_cart
               /\ reqs' = [reqs EXCEPT ![i] =
                              [r EXCEPT !.pc = "reget", !.exc = "IntegrityError"]]
    /\ UNCHANGED <<recipe_tables, favorite, follower>>

\* get_or_create, after IntegrityError: self.get(**kwargs) again; found
\* gives (obj, False), otherwise the IntegrityError is raised again.
ShoppingCartReget(i) ==
    /\ At(i, "shopping_cart", "POST", "reget")
    /\ LET r == reqs[i] IN
       reqs' = [reqs EXCEPT ![i] =
                   IF Exists(shopping_cart, <<r.user, r.pk>>)
                   THEN Respond(r, 400, "already_exists")
                   ELSE Respond(r, 500, "IntegrityError")]
    /\ UNCHANGED <<recipe_tables, favorite, shopping_cart, follower>>

\* deleted, _ = ShoppingCart.objects.filter(...).delete(); if deleted == 0: 400
ShoppingCartDelete(i) ==
    /\ At(i, "shopping_cart", "DELETE", "delete")
    /\ LET r == reqs[i]
           key == <<r.user, r.pk>>
           deleted == shopping_cart[key]
       IN /\ shopping_cart' = DeleteRows(shopping_cart, key)
          /\ reqs' = [reqs EXCEPT ![i] =
                         IF deleted = 0 THEN Respond(r, 400, "not_found")
                         ELSE Respond(r, 204, "no_content")]
    /\ UNCHANGED <<recipe_tables, favorite, follower>>

(* ---------------------------------- UserActionsViewSet.subscribe *)
NeverSelfFollow(follower_user, followed_user) == FALSE

\* if follower == followed: 400
IsSelfFollow(follower_user, followed_user) == follower_user = followed_user

\* Dispatch of POST|DELETE /users/{id}/subscribe/: the permission check,
\* get_object_or_404(User, pk=id) and the self-follow test, which comes
\* before either branch on the method.
BeginSubscribe(i, inflight) ==
    /\ CanBegin(i, inflight)
    /\ \E method \in {"POST", "DELETE"}, user \in Users, id \in Users :
          LET r == NewRequest("subscribe", method, user, id, "check") IN
          reqs' = [reqs EXCEPT ![i] =
                      IF ~IsAuthenticated(user) THEN Respond(r, 401, "not_authenticated")
                      ELSE IF id \notin Users THEN Respond(r, 404, "not_found")
                      ELSE IF IsSelfFollow(user, id) THEN Respond(r, 400, "self_follow")
                      ELSE r]
    /\ UNCHANGED <<recipe_tables, favorite, shopping_cart, follower>>

\* if Follower.objects.filter(follower=..., followed=...).exists(): 400
SubscribeExists(i) ==
    /\ At(i, "subscribe", "POST", "check")
    /\ LET r == reqs[i] IN
       reqs' = [reqs EXCEPT ![i] =
                   IF Exists(follower, <<r.user, r.pk>>)
                   THEN Respond(r, 400, "already_exists")
                   ELSE [r EXCEPT !.pc = "create"]]
    /\ UNCHANGED <<recipe_tables, favorite, shopping_cart, follower>>

\* Follower.objects.create(follower=follower, followed=followed)
SubscribeCreate(i) ==
    /\ At(i, "subscribe", "POST", "create")
    /\ LET r == reqs[i]
           key == <<r.user, r.pk>>
       IN IF FollowerConstraints(follower, key)
          THEN /\ follower' = InsertRow(follower, key)
               /\ reqs' = [reqs EXCEPT ![i] = Respond(r, 201, "created")]
          ELSE /\ follower' = follower
               /\ reqs' = [reqs EXCEPT ![i] =
                              Respond([r EXCEPT !.exc = "IntegrityError"],
                                      500, "IntegrityError")]
    /\ UNCHANGED <<recipe_tables, favorite, shopping_cart>>

\* follow_relation = Follower.objects.filter(...); if not exists(): 400
SubscribeDeleteCheck(i) ==
    /\ At(i, "subscribe", "DELETE", "check")
    /\ LET r == reqs[i] IN
       reqs' = [reqs EXCEPT ![i] =
                   IF ~Exists(follower, <<r.user, r.pk>>)
                   THEN Respond(r, 400, "not_found")
                   ELSE [r EXCEPT !.pc = "delete"]]
    /\ UNCHANGED <<recipe_tables, favorite, shopping_cart, follower>>

\* follow_relation.delete(); 204
SubscribeDelete(i) ==
    /\ At(i, "subscribe", "DELETE", "delete")
    /\ LET r == reqs[i] IN
       /\ follower' = DeleteRows(follower, <<r.user, r.pk>>)
       /\ reqs' = [reqs EXCEPT ![i] = Respond(r, 204, "no_content")]
    /\ UNCHANGED <<recipe_tables, favorite, shopping_cart>>

(* ------------------- RecipeViewSet.retrieve with RecipeSerializer *)
\* GET /recipes/{pk}/: get_object(); IsAuthorOrReadOnly lets every safe
\* method through, so the requester may be anonymous.
BeginRetrieve(i, inflight) ==
    /\ CanBegin(i, inflight)
    /\ \E user \in Users \cup {Anon}, pk \in Targets :
          LET r == NewRequest("retrieve", "GET", user, pk, "related") IN
          reqs' = [reqs EXCEPT ![i] =
                      IF pk \notin DOMAIN recipes THEN Respond(r, 404, "not_found")
                      ELSE [r EXCEPT !.instance = recipes[pk]]]
    /\ UNCHANGED <<recipe_tables, favorite, shopping_cart, follower>>

\* RecipeIngredientSerializer over recipeingredient_set
IngredientLines(id) ==
    {[id |-> l.ingredient, name |-> Ingredient[l.ingredient].name,
      measurement_unit |-> Ingredient[l.ingredient].measurement_unit,
      amount |-> l.amount] : l \in {m \in recipe_ingredients : m.recipe = id}}

\* RecipeSerializer: the fields of the instance, its tags and its lines
Representation(id, instance) ==
    [id |-> id, author |-> instance.author, name |-> instance.name,
     cooking_time |-> instance.cooking_time,
     tags |-> {p[2] : p \in {q \in recipe_tags : q[1] = id}},
     ingredients |-> IngredientLines(id)]

\* serializer.data: tags, author and ingredients come before the flags
RetrieveRelated(i) ==
    /\ At(i, "retrieve", "GET", "related")
    /\ LET r == reqs[i] IN
       reqs' = [reqs EXCEPT ![i] =
                   [r EXCEPT !.body = Representation(r.pk, r.instance),
                             !.pc = "is_favorited"]]
    /\ UNCHANGED <<recipe_tables, favorite, shopping_cart, follower>>

is_favorited_by_anyone(user, obj) == \E u \in Users : Exists(favorite, <<u, obj>>)

\* RecipeSerializer.get_is_favorited
get_is_favorited(user, obj) ==
    IF ~IsAuthenticated(user) THEN FALSE
    ELSE Exists(favorite, <<user, obj>>)

\* RecipeSerializer.get_is_in_shopping_cart
get_is_in_shopping_cart(user, obj) ==
    IF ~IsAuthenticated(user) THEN FALSE
    ELSE Exists(shopping_cart, <<user, obj>>)

\* serializer.data computes the fields in the order of Meta.fields, each
\* method field with a query of its own.
RetrieveIsFavorited(i) ==
    /\ At(i, "retrieve", "GET", "is_favorited")
    /\ LET r == reqs[i] IN
       reqs' = [reqs EXCEPT ![i] =
                   [r EXCEPT !.is_favorited = get_is_favorited(r.user, r.pk),
                             !.pc = "is_in_shopping_cart"]]
    /\ UNCHANGED <<recipe_tables, favorite, shopping_cart, follower>>

RetrieveIsInShoppingCart(i) ==
    /\ At(i, "retrieve", "GET", "is_in_shopping_cart")
    /\ LET r == reqs[i] IN
       reqs' = [reqs EXCEPT ![i] =
                   Respond([r EXCEPT !.is_in_shopping_cart =
                                         get_is_in_shopping_cart(r.user, r.pk)],
                           200, "ok")]
    /\ UNCHANGED <<recipe_tables, favorite, shopping_cart, follower>>

(* ----------------------------- RecipeViewSet.download_shopping_cart *)
BeginDownload(i, inflight) ==
    /\ CanBegin(i, inflight)
    /\ \E user \in Users :
          LET r == NewRequest("download_shopping_cart", "GET", user, 0, "query") IN
          reqs' = [reqs EXCEPT ![i] =
                      IF ~IsAuthenticated(user) THEN Respond(r, 401, "not_authenticated")
                      ELSE r]
    /\ UNCHANGED <<recipe_tables, favorite, shopping_cart, follower>>

\* Recipe.objects.filter(id__in=ShoppingCart.objects.filter(author=user)
\*                                  .values_list('recipe_id', flat=True))
CartRecipes(user) ==
    {id \in DOMAIN recipes : Exists(shopping_cart, <<user, id>>)}

\* RecipeIngredient.objects.filter(recipe__in=recipes)
CartLines(user) == {l \in recipe_ingredients : l.recipe \in CartRecipes(user)}

GroupKeyNameOnly(l) == <<Ingredient[l.ingredient].name, "g">>

\* .values(name=F('ingredient__name'),
\*         measurement_unit=F('ingredient__measurement_unit')): the GROUP BY
GroupKey(l) ==
    <<Ingredient[l.ingredient].name, Ingredient[l.ingredient].measurement_unit>>

RECURSIVE SumAmount(_)
\* Sum('amount') over the lines of one group
SumAmount(lines) ==
    IF lines = {} THEN 0
    ELSE LET l == CHOOSE x \in lines : TRUE IN l.amount + SumAmount(lines \ {l})

\* .annotate(total_amount=Sum('amount')): one row per group
Aggregate(lines) ==
    {[name |-> k[1], measurement_unit |-> k[2],
      total_amount |-> SumAmount({l \in lines : GroupKey(l) = k})]
        : k \in {GroupKey(l) : l \in lines}}

\* .order_by('name'): the orders the store may return the rows in; rows of
\* one name come in any order.
OrderByName(rows) ==
    {s \in [1..Cardinality(rows) -> rows] :
        \A a, b \in 1..Cardinality(rows) :
            a < b => s[a] # s[b] /\ NameRank(s[a].name) <= NameRank(s[b].name)}

\* str() of DownloadShoppingCart.total_amount: the FloatField turns the
\* integer sum into float(value), which an f-string prints with ".0".
FormatFloat(value) == ToString(value) \o ".0"

\* f"- {item['name']} {item['total_amount']} {item['measurement_unit']}"
Line(item) ==
    "- " \o item.name \o " " \o FormatFloat(item.total_amount)
         \o " " \o item.measurement_unit

RECURSIVE Join(_)
\* "\n".join(lines)
Join(lines) ==
    IF lines = <<>> THEN ""
    ELSE IF Len(lines) = 1 THEN lines[1]
    ELSE lines[1] \o "\n" \o Join(Tail(lines))

\* The one query of the handler (the querysets are lazy until
\* serializer.data iterates) and the rendering of the response body.
DownloadShoppingCart(i) ==
    /\ At(i, "download_shopping_cart", "GET", "query")
    /\ LET r == reqs[i] IN
       \E items \in OrderByName(Aggregate(CartLines(r.user))) :
           reqs' = [reqs EXCEPT ![i] =
                       Respond([r EXCEPT !.items = items,
                                         !.text = Join([k \in DOMAIN items |->
                                                           Line(items[k])])],
                               200, "ok")]
    /\ UNCHANGED <<recipe_tables, favorite, shopping_cart, follower>>

(* --------------------------------------------- RecipeWriteSerializer *)
Ids(ingredients) == [k \in DOMAIN ingredients |-> ingredients[k].id]

Range(seq) == {seq[k] : k \in DOMAIN seq}

HasDuplicates(seq) == Cardinality(Range(seq)) # Len(seq)

\* is_valid(): the fields first (cooking_time carries the model's
\* MinValueValidator(MIN_TIME); the ingredient amounts are plain
\* IntegerFields), then RecipeWriteSerializer.validate.  The field of the
\* first error, "" if the data are valid.
MIN_TIME == 1

Validate(data) ==
    IF data.cooking_time < MIN_TIME THEN "cooking_time"
    ELSE IF data.ingredients = <<>> THEN "ingredients"
    ELSE IF HasDuplicates(Ids(data.ingredients)) THEN "ingredients"
    ELSE IF data.tags = <<>> THEN "tags"
    ELSE IF HasDuplicates(data.tags) THEN "tags"
    ELSE ""

NewLinesFirstOnly(id, ingredients) ==
    {[recipe |-> id, ingredient |-> ingredients[k].id, amount |-> ingredients[k].amount]
        : k \in {1}}

\* The rows bulk_create writes for the payload's ingredients.
NewLines(id, ingredients) ==
    {[recipe |-> id, ingredient |-> ingredients[k].id, amount |-> ingredients[k].amount]
        : k \in DOMAIN ingredients}

\* unique_recipe_ingredient and the CHECK (amount >= 0) of the
\* PositiveIntegerField column
LinesRefused(lines, new) ==
    \/ \E l \in new : l.amount < 0
    \/ \E l \in new : \E m \in lines : m.recipe = l.recipe /\ m.ingredient = l.ingredient

(* ------------------------------- RecipeViewSet.create (CreateModelMixin) *)
\* POST /recipes/: IsAuthorOrReadOnly has no has_permission, so every
\* requester passes; is_valid(raise_exception=True).  A create is taken
\* while primary keys are left.
BeginCreate(i, inflight, payloads) ==
    /\ CanBegin(i, inflight)
    /\ recipe_seq + Cardinality({j \in Slots : reqs[j].op = "create"
                                     /\ reqs[j].pc = "insert"}) < NumRecipes
    /\ \E user \in Users, data \in payloads :
          LET r == [NewRequest("create", "POST", user, 0, "insert") EXCEPT
                        !.data = data] IN
          reqs' = [reqs EXCEPT ![i] =
                      IF Validate(data) # "" THEN Respond(r, 400, Validate(data))
                      ELSE IF ~IsAuthenticated(user) THEN Respond(r, 500, "ValueError")
                      ELSE r]
    /\ UNCHANGED <<recipe_tables, favorite, shopping_cart, follower>>

\* recipe = Recipe.objects.create(**validated_data), author=request.user
CreateRecipe(i) ==
    /\ At(i, "create", "POST", "insert")
    /\ LET r == reqs[i]
           id == recipe_seq + 1
           saved == Save(recipes, id,
                         [author |-> r.user, name |-> r.data.name,
                          cooking_time |-> r.data.cooking_time,
                          short_link |-> NoLink])
       IN /\ recipes' = saved.rows
          /\ recipe_seq' = IF saved.raised = "" THEN id ELSE recipe_seq
          /\ reqs' = [reqs EXCEPT ![i] =
                         IF saved.raised # "" THEN Respond(r, 500, saved.raised)
                         ELSE [r EXCEPT !.pk = id, !.instance = saved.instance,
                                        !.pc = "set_tags"]]
    /\ UNCHANGED <<recipe_ingredients, recipe_tags, favorite, shopping_cart, follower>>

\* recipe.tags.set(tags)
CreateSetTags(i) ==
    /\ At(i, "create", "POST", "set_tags")
    /\ LET r == reqs[i] IN
       /\ recipe_tags' = {p \in recipe_tags : p[1] # r.pk}
                            \cup {<<r.pk, t>> : t \in Range(r.data.tags)}
       /\ reqs' = [reqs EXCEPT ![i] = [r EXCEPT !.pc = "create_ingredients"]]
    /\ UNCHANGED <<recipes, recipe_seq, recipe_ingredients,
                   favorite, shopping_cart, follower>>

\* self.create_ingredients(ingredients, recipe)
CreateIngredients(i) ==
    /\ At(i, "create", "POST", "create_ingredients")
    /\ LET r == reqs[i]
           new == NewLines(r.pk, r.data.ingredients)
       IN IF LinesRefused(recipe_ingredients, new)
          THEN /\ recipe_ingredients' = recipe_ingredients
               /\ reqs' = [reqs EXCEPT ![i] =
                              Respond([r EXCEPT !.exc = "IntegrityError"],
                                      500, "IntegrityError")]
          ELSE /\ recipe_ingredients' = recipe_ingredients \cup new
               /\ reqs' = [reqs EXCEPT ![i] = [r EXCEPT !.pc = "to_representation"]]
    /\ UNCHANGED <<recipes, recipe_seq, recipe_tags, favorite, shopping_cart, follower>>

\* to_representation: RecipeSerializer(instance, context=self.context).data; 201
CreateRepresentation(i) ==
    /\ At(i, "create", "POST", "to_representation")
    /\ LET r == reqs[i] IN
       reqs' = [reqs EXCEPT ![i] =
                   Respond([r EXCEPT
                               !.body = Representation(r.pk, r.instance),
                               !.is_favorited = get_is_favorited(r.user, r.pk),
                               !.is_in_shopping_cart =
                                   get_is_in_shopping_cart(r.user, r.pk)],
                           201, "created")]
    /\ UNCHANGED <<recipe_tables, favorite, shopping_cart, follower>>

(* ------------------------------- RecipeViewSet.update (UpdateModelMixin) *)
\* PUT /recipes/{pk}/: get_object() with IsAuthorOrReadOnly
\* .has_object_permission, then is_valid().  For an authenticated requester
\* who is not the author the permission reads request.user.is_admin, which
\* the User model does not define.
BeginUpdate(i, inflight, payloads) ==
    /\ CanBegin(i, inflight)
    /\ \E user \in Users, pk \in RecipeIds, data \in payloads :
          LET r == [NewRequest("update", "PUT", user, pk, "clear_ingredients") EXCEPT
                        !.data = data] IN
          reqs' = [reqs EXCEPT ![i] =
                      IF pk \notin DOMAIN recipes THEN Respond(r, 404, "not_found")
                      ELSE IF ~IsAuthenticated(user)
                           THEN Respond(r, 401, "not_authenticated")
                      ELSE IF recipes[pk].author # user
                           THEN Respond(r, 500, "AttributeError")
                      ELSE IF Validate(data) # "" THEN Respond(r, 400, Validate(data))
                      ELSE [r EXCEPT !.instance = recipes[pk]]]
    /\ UNCHANGED <<recipe_tables, favorite, shopping_cart, follower>>

UpdateKeepIngredients(i) ==
    /\ At(i, "update", "PUT", "clear_ingredients")
    /\ reqs' = [reqs EXCEPT ![i] = [reqs[i] EXCEPT !.pc = "create_ingredients"]]
    /\ UNCHANGED <<recipe_tables, favorite, shopping_cart, follower>>

\* instance.ingredients.clear()
UpdateClearIngredients(i) ==
    /\ At(i, "update", "PUT", "clear_ingredients")
    /\ recipe_ingredients' = {l \in recipe_ingredients : l.recipe # reqs[i].pk}
    /\ reqs' = [reqs EXCEPT ![i] = [reqs[i] EXCEPT !.pc = "create_ingredients"]]
    /\ UNCHANGED <<recipes, recipe_seq, recipe_tags, favorite, shopping_cart, follower>>

\* self.create_ingredients(ingredients, instance)
UpdateCreateIngredients(i) ==
    /\ At(i, "update", "PUT", "create_ingredients")
    /\ LET r == reqs[i]
           new == NewLines(r.pk, r.data.ingredients)
       IN IF LinesRefused(recipe_ingredients, new)
          THEN /\ recipe_ingredients' = recipe_ingredients
               /\ reqs' = [reqs EXCEPT ![i] =
                              Respond([r EXCEPT !.exc = "IntegrityError"],
                                      500, "IntegrityError")]
          ELSE /\ recipe_ingredients' = recipe_ingredients \cup new
               /\ reqs' = [reqs EXCEPT ![i] = [r EXCEPT !.pc = "set_tags"]]
    /\ UNCHANGED <<recipes, recipe_seq, recipe_tags, favorite, shopping_cart, follower>>

\* instance.tags.set(validated_data['tags'])
UpdateSetTags(i) ==
    /\ At(i, "update", "PUT", "set_tags")
    /\ LET r == reqs[i] IN
       /\ recipe_tags' = {p \in recipe_tags : p[1] # r.pk}
                            \cup {<<r.pk, t>> : t \in Range(r.data.tags)}
       /\ reqs' = [reqs EXCEPT ![i] = [r EXCEPT !.pc = "save"]]
    /\ UNCHANGED <<recipes, recipe_seq, recipe_ingredients,
                   favorite, shopping_cart, follower>>

\* super().update(instance, validated_data): setattr of the scalar fields,
\* instance.save(), then the many-to-many tags set once more; 200
UpdateSave(i) ==
    /\ At(i, "update", "PUT", "save")
    /\ LET r == reqs[i]
           saved == Save(recipes, r.pk,
                         [r.instance EXCEPT !.name = r.data.name,
                                            !.cooking_time = r.data.cooking_time])
       IN /\ recipes' = saved.rows
          /\ recipe_tags' = IF saved.raised # "" THEN recipe_tags
                            ELSE {p \in recipe_tags : p[1] # r.pk}
                                    \cup {<<r.pk, t>> : t \in Range(r.data.tags)}
          /\ reqs' = [reqs EXCEPT ![i] =
                         IF saved.raised # "" THEN Respond(r, 500, saved.raised)
                         ELSE Respond([r EXCEPT !.instance = saved.instance],
                                      200, "ok")]
    /\ UNCHANGED <<recipe_seq, recipe_ingredients, favorite, shopping_cart, follower>>

(* ----------------------------- RecipeViewSet.destroy (DestroyModelMixin) *)
\* DELETE /recipes/{pk}/: get_object() with IsAuthorOrReadOnly
\* .has_object_permission, as for an update.
BeginDestroy(i, inflight) ==
    /\ CanBegin(i, inflight)
    /\ \E user \in Users, pk \in RecipeIds :
          LET r == NewRequest("destroy", "DELETE", user, pk, "delete") IN
          reqs' = [reqs EXCEPT ![i] =
                      IF pk \notin DOMAIN recipes THEN Respond(r, 404, "not_found")
                      ELSE IF ~IsAuthenticated(user)
                           THEN Respond(r, 401, "not_authenticated")
                      ELSE IF recipes[pk].author # user
                           THEN Respond(r, 500, "AttributeError")
                      ELSE [r EXCEPT !.instance = recipes[pk]]]
    /\ UNCHANGED <<recipe_tables, favorite, shopping_cart, follower>>

\* rows of the table without those of the recipe (on_delete=CASCADE)
WithoutRecipe(table, pk) ==
    [key \in DOMAIN table |-> IF key[2] = pk THEN 0 ELSE table[key]]

\* instance.delete(): the row goes, with its tag rows and the Favorite and
\* ShoppingCart rows of the recipe; its ingredient lines stay with their
\* recipe set to NULL (on_delete=SET_NULL); 204
DestroyRecipe(i) ==
    /\ At(i, "destroy", "DELETE", "delete")
    /\ LET r == reqs[i] IN
       /\ recipes' = [id \in DOMAIN recipes \ {r.pk} |-> recipes[id]]
       /\ recipe_tags' = {q \in recipe_tags : q[1] # r.pk}
       /\ recipe_ingredients' =
             {IF l.recipe = r.pk THEN [l EXCEPT !.recipe = 0] ELSE l
                 : l \in recipe_ingredients}
       /\ favorite' = WithoutRecipe(favorite, r.pk)
       /\ shopping_cart' = WithoutRecipe(shopping_cart, r.pk)
       /\ reqs' = [reqs EXCEPT ![i] = Respond(r, 204, "no_content")]
    /\ UNCHANGED <<recipe_seq, follower>>

(* ------------------------------------------- RecipeViewSet.get_link *)
\* GET /recipes/{pk}/get-link/, permission_classes=(AllowAny,)
BeginGetLink(i, inflight) ==
    /\ CanBegin(i, inflight)
    /\ \E pk \in RecipeIds :
          reqs' = [reqs EXCEPT ![i] = NewRequest("get_link", "GET", Anon, pk, "get")]
    /\ UNCHANGED <<recipe_tables, favorite, shopping_cart, follower>>

\* recipe = get_object_or_404(Recipe, id=pk); the stored link if there is
\* one.  Otherwise recipe.save(request=request): the first round of
\* Recipe.save hands request= on to Model.save, which takes no such
\* argument; the TypeError is no IntegrityError, leaves the loop and is
\* answered by `except Exception` with 500, the row as it was.
GetLink(i) ==
    /\ At(i, "get_link", "GET", "get")
    /\ LET r == reqs[i] IN
       reqs' = [reqs EXCEPT ![i] =
                   IF r.pk \notin DOMAIN recipes THEN Respond(r, 404, "not_found")
                   ELSE IF ~LacksShortLink(recipes[r.pk])
                        THEN Respond([r EXCEPT !.link = recipes[r.pk].short_link],
                                     200, "ok")
                   ELSE Respond([r EXCEPT !.exc = "TypeError"], 500, "error")]
    /\ UNCHANGED <<recipe_tables, favorite, shopping_cart, follower>>

(* ------------------------------------ RecipeShortLinkRedirect.get *)
\* The codes asked for: those Recipe.save makes for the users' names and
\* the recipe names, and one that no recipe has.
Codes ==
    {ShortCode(FullName(u), n) : u \in Users, n \in RecipeNames}
        \cup {<<"md5", "", "">>}

\* GET /r/<str:short_link>/, permission_classes = [AllowAny]
BeginResolve(i, inflight) ==
    /\ CanBegin(i, inflight)
    /\ \E code \in Codes :
          reqs' = [reqs EXCEPT ![i] =
                      [NewRequest("resolve", "GET", Anon, 0, "get") EXCEPT
                          !.short_link = code]]
    /\ UNCHANGED <<recipe_tables, favorite, shopping_cart, follower>>

\* f'api/recipes/{recipe.id}'
RedirectTo(id) == "api/recipes/" \o ToString(id)

\* Recipe.objects.get(short_link=short_link): the one row of the code and a
\* redirect to it; ObjectDoesNotExist is answered with a redirect to /404;
\* MultipleObjectsReturned is caught nowhere.
Resolve(i) ==
    /\ At(i, "resolve", "GET", "get")
    /\ LET r == reqs[i]
           found == {id \in DOMAIN recipes : recipes[id].short_link = r.short_link}
       IN reqs' = [reqs EXCEPT ![i] =
                      IF found = {}
                      THEN Respond([r EXCEPT !.location = "/404"], 302, "redirect")
                      ELSE IF Cardinality(found) = 1
                      THEN LET id == CHOOSE id \in found : TRUE IN
                           Respond([r EXCEPT !.pk = id, !.location = RedirectTo(id)],
                                   302, "redirect")
                      ELSE Respond([r EXCEPT !.exc = "MultipleObjectsReturned"],
                                   500, "MultipleObjectsReturned")]
    /\ UNCHANGED <<recipe_tables, favorite, shopping_cart, follower>>

(* --------------------------------- RecipeViewSet.list with RecipeFilter *)
Slugs == {Tag[t].slug : t \in TagIds}

\* the values of the tags parameter: slugs of the catalogue and one other
RequestedSlugs == Slugs \cup {"supper"}

\* GET /recipes/?tags=...&tags=..., open to every requester
BeginList(i, inflight) ==
    /\ CanBegin(i, inflight)
    /\ \E requested \in SUBSET RequestedSlugs :
          reqs' = [reqs EXCEPT ![i] =
                      [NewRequest("list", "GET", Anon, 0, "filter") EXCEPT
                          !.slugs = requested]]
    /\ UNCHANGED <<recipe_tables, favorite, shopping_cart, follower>>

\* The rows of Recipe joined to its tags that the OR of tags__slug=value
\* over the requested values keeps, counted by recipe.
JoinedRows(requested) ==
    [id \in DOMAIN recipes |->
        Cardinality({q \in recipe_tags : q[1] = id /\ Tag[q[2]].slug \in requested})]

NotDistinct(rows) == rows

\* distinct=True: qs.distinct()
Distinct(rows) == [id \in DOMAIN rows |-> IF rows[id] > 0 THEN 1 ELSE 0]

\* GET /recipes/?is_favorited=1, ?is_in_shopping_cart=1 or both
BeginListMine(i, inflight) ==
    /\ CanBegin(i, inflight)
    /\ \E user \in Users \cup {Anon}, is_favorited \in BOOLEAN, in_cart \in BOOLEAN :
          /\ is_favorited \/ in_cart
          /\ reqs' = [reqs EXCEPT ![i] =
                         [NewRequest("list", "GET", user, 0, "filter") EXCEPT
                             !.favorited_only = is_favorited,
                             !.in_cart_only = in_cart]]
    /\ UNCHANGED <<recipe_tables, favorite, shopping_cart, follower>>

filter_favorite_any(rows, user, value) ==
    IF value
    THEN [id \in DOMAIN rows |->
             IF \E u \in Users : favorite[<<u, id>>] > 0 THEN rows[id] ELSE 0]
    ELSE rows

\* RecipeFilter.filter_favorite: queryset.filter(favorite__author=user), the
\* rows joined to the requester's Favorite rows; none for an anonymous
\* requester; the queryset as it is when the value is false
filter_favorite(rows, user, value) ==
    IF value /\ IsAuthenticated(user)
    THEN [id \in DOMAIN rows |-> rows[id] * favorite[<<user, id>>]]
    ELSE IF value THEN [id \in DOMAIN rows |-> 0]
    ELSE rows

\* RecipeFilter.filter_cart: queryset.filter(shoppingcart__author=user)
filter_cart(rows, user, value) ==
    IF value /\ IsAuthenticated(user)
    THEN [id \in DOMAIN rows |-> rows[id] * shopping_cart[<<user, id>>]]
    ELSE IF value THEN [id \in DOMAIN rows |-> 0]
    ELSE rows

\* ModelMultipleChoiceFilter(queryset=Tag.objects.all(), field_name='tags__slug',
\* to_field_name='slug', distinct=True): a value that is the slug of no tag
\* fails the filter form and the request is answered 400; no value leaves the
\* queryset as it is; otherwise the recipes of the joined rows, each once.
\* The favorite and cart filters apply to the same queryset.
ListRecipes(i) ==
    /\ At(i, "list", "GET", "filter")
    /\ LET r == reqs[i]
           tagged == IF r.slugs = {} THEN [id \in DOMAIN recipes |-> 1]
                     ELSE JoinedRows(r.slugs)
           rows == filter_cart(filter_favorite(tagged, r.user, r.favorited_only),
                               r.user, r.in_cart_only)
       IN reqs' = [reqs EXCEPT ![i] =
                      IF ~(r.slugs \subseteq Slugs) THEN Respond(r, 400, "tags")
                      ELSE IF r.slugs = {}
                           THEN Respond([r EXCEPT !.results = rows], 200, "ok")
                      ELSE Respond([r EXCEPT !.results = Distinct(rows)], 200, "ok")]
    /\ UNCHANGED <<recipe_tables, favorite, shopping_cart, follower>>

(* ------------------------------------ Recipe.save of a new instance *)
\* Recipe.objects.create(author=..., name=...) against a store that answers
\* the first `refusals` writes with IntegrityError.
SaveNew(i) ==
    /\ CanBegin(i, 0)
    /\ recipe_seq < NumRecipes
    /\ \E user \in Users, name \in RecipeNames, refusals \in 0..MaxRefusals :
          LET id == recipe_seq + 1
              saved == SaveRefused(recipes, id,
                                   [author |-> user, name |-> name, cooking_time |-> 1,
                                    short_link |-> NoLink],
                                   refusals)
              r == [NewRequest("save", "", user, id, "save") EXCEPT
                       !.refusals = refusals, !.attempts = saved.attempts,
                       !.codes = saved.codes,
                       !.instance = saved.instance, !.exc = saved.raised]
          IN /\ recipes' = saved.rows
             /\ recipe_seq' = IF saved.raised = "" THEN id ELSE recipe_seq
             /\ reqs' = [reqs EXCEPT ![i] =
                            IF saved.raised = "" THEN Respond(r, 201, "created")
                            ELSE Respond(r, 500, saved.raised)]
    /\ UNCHANGED <<recipe_ingredients, recipe_tags, favorite, shopping_cart, follower>>

(* ------------------------------------------------------ specifications *)
\* The recipes already published when the requests of a run arrive, each
\* stored by Recipe.save.
Published ==
    [id \in RecipeIds |->
        LET author == ((id - 1) % NumUsers) + 1
            name == IF id % 2 = 1 THEN "soup" ELSE "cake"
        IN [author |-> author, name |-> name, cooking_time |-> 1,
            short_link |-> ShortCode(FullName(author), name)]]

EmptyTables ==
    /\ favorite = [k \in RelKeys |-> 0]
    /\ shopping_cart = [k \in RelKeys |-> 0]
    /\ follower = [k \in FollowKeys |-> 0]

\* one line per published recipe
PublishedLines == {[recipe |-> id, ingredient |-> 1, amount |-> 1] : id \in RecipeIds}

InitRel ==
    /\ recipes = Published
    /\ recipe_seq = NumRecipes
    /\ recipe_ingredients = PublishedLines
    /\ recipe_tags = {<<id, 1>> : id \in RecipeIds}
    /\ EmptyTables
    /\ reqs = [i \in Slots |-> Idle]

FavoriteSteps(i) ==
    \/ FavoriteExists(i)
    \/ FavoriteCreate(i)
    \/ FavoriteDeleteCheck(i)
    \/ FavoriteDelete(i)

SubscribeSteps(i) ==
    \/ SubscribeExists(i)
    \/ SubscribeCreate(i)
    \/ SubscribeDeleteCheck(i)
    \/ SubscribeDelete(i)

\* Concurrent relation requests: up to MaxReq requests, interleaved at
\* their store calls.
NextRel ==
    \E i \in Slots :
        \/ BeginFavorite(i, MaxReq)
        \/ BeginShoppingCart(i, MaxReq)
        \/ BeginSubscribe(i, MaxReq)
        \/ FavoriteSteps(i)
        \/ ShoppingCartGet(i)
        \/ ShoppingCartCreate(i)
        \/ ShoppingCartReget(i)
        \/ ShoppingCartDelete(i)
        \/ SubscribeSteps(i)

SpecRel == InitRel /\ [][NextRel]_vars

\* Relation requests one after the other: a request arrives when the
\* previous one has been answered, in the order of the slots.  No insert
\* then meets a row that its own existence check has not seen.
NextSeq ==
    \E i \in Slots :
        \/ BeginFavorite(i, 0)
        \/ BeginShoppingCart(i, 0)
        \/ BeginSubscribe(i, 0)
        \/ FavoriteSteps(i)
        \/ ShoppingCartGet(i)
        \/ ShoppingCartCreate(i)
        \/ ShoppingCartDelete(i)
        \/ SubscribeSteps(i)

SpecSeq == InitRel /\ [][NextSeq]_vars

\* Reads of a recipe by any requester, concurrent with favorite and
\* shopping-cart requests.
NextRead ==
    \E i \in Slots :
        \/ BeginFavorite(i, MaxReq)
        \/ BeginShoppingCart(i, MaxReq)
        \/ BeginRetrieve(i, MaxReq)
        \/ FavoriteSteps(i)
        \/ ShoppingCartGet(i)
        \/ ShoppingCartCreate(i)
        \/ ShoppingCartReget(i)
        \/ ShoppingCartDelete(i)
        \/ RetrieveRelated(i)
        \/ RetrieveIsFavorited(i)
        \/ RetrieveIsInShoppingCart(i)

SpecRead == InitRel /\ [][NextRead]_vars

\* The ingredient lines a published recipe may have.
LineMenus ==
    {{[ingredient |-> 1, amount |-> 2]},
     {[ingredient |-> 1, amount |-> 3]},
     {[ingredient |-> 2, amount |-> 1]},
     {[ingredient |-> 1, amount |-> 1], [ingredient |-> 2, amount |-> 2],
      [ingredient |-> 3, amount |-> 1]}}

\* Every store the recipes' writes and the cart adds and removes can leave:
\* each recipe with one of the line sets, each user's cart any set of recipes.
InitCart ==
    /\ recipes = Published
    /\ recipe_seq = NumRecipes
    /\ recipe_tags = {<<id, 1>> : id \in RecipeIds}
    /\ \E menu \in [RecipeIds -> LineMenus] :
          recipe_ingredients =
              {[recipe |-> id, ingredient |-> l.ingredient, amount |-> l.amount]
                  : <<id, l>> \in {p \in RecipeIds \X UNION LineMenus : p[2] \in menu[p[1]]}}
    /\ favorite = [k \in RelKeys |-> 0]
    /\ shopping_cart \in [RelKeys -> {0, 1}]
    /\ follower = [k \in FollowKeys |-> 0]
    /\ reqs = [i \in Slots |-> Idle]

\* One download of the shopping cart from each such store.
NextCart ==
    \/ BeginDownload(1, 0)
    \/ DownloadShoppingCart(1)

SpecCart == InitCart /\ [][NextCart]_vars

\* The write payloads of the short-link runs: a valid payload with either
\* name.
LinkPayloads ==
    {[name |-> n, cooking_time |-> 1, tags |-> <<1>>,
      ingredients |-> <<[id |-> 1, amount |-> 1]>>] : n \in RecipeNames}

\* The store holds the first n published recipes, none to begin with.
InitLink ==
    /\ \E n \in 0..(NumRecipes - 1) :
          /\ recipes = [id \in 1..n |-> Published[id]]
          /\ recipe_seq = n
          /\ recipe_ingredients = {l \in PublishedLines : l.recipe <= n}
          /\ recipe_tags = {<<id, 1>> : id \in 1..n}
    /\ EmptyTables
    /\ reqs = [i \in Slots |-> Idle]

\* Recipes are created, updated, asked for their link and looked up by
\* their code, two requests at a time.
NextLink ==
    \E i \in Slots :
        \/ BeginCreate(i, 1, LinkPayloads)
        \/ CreateRecipe(i)
        \/ CreateSetTags(i)
        \/ CreateIngredients(i)
        \/ CreateRepresentation(i)
        \/ BeginUpdate(i, 1, LinkPayloads)
        \/ UpdateClearIngredients(i)
        \/ UpdateCreateIngredients(i)
        \/ UpdateSetTags(i)
        \/ UpdateSave(i)
        \/ BeginGetLink(i, 1)
        \/ GetLink(i)
        \/ BeginResolve(i, 1)
        \/ Resolve(i)

SpecLink == InitLink /\ [][NextLink]_vars

\* A write payload
Payload(ingredients, tags, cooking_time) ==
    [name |-> "soup", cooking_time |-> cooking_time, tags |-> tags,
     ingredients |-> ingredients]

Entry(id, amount) == [id |-> id, amount |-> amount]

\* The payloads of the create runs: two that are in order, and those that
\* break one rule or several.
CreatePayloads ==
    {Payload(<<Entry(1, 2)>>, <<1>>, 1),
     Payload(<<Entry(1, 2), Entry(2, 3)>>, <<1, 2>>, 1),
     Payload(<<>>, <<1>>, 1),
     Payload(<<Entry(1, 2), Entry(1, 3)>>, <<1>>, 1),
     Payload(<<Entry(1, 2)>>, <<>>, 1),
     Payload(<<Entry(1, 2)>>, <<2, 2>>, 1),
     Payload(<<Entry(1, 2)>>, <<1>>, 0),
     Payload(<<Entry(2, 0)>>, <<1>>, 1),
     Payload(<<Entry(2, 0 - 1)>>, <<1>>, 1),
     Payload(<<>>, <<>>, 0),
     Payload(<<Entry(1, 2), Entry(1, 3)>>, <<2, 2>>, 1),
     Payload(<<Entry(2, 0)>>, <<>>, 1)}

InitCreate ==
    /\ recipes = <<>>
    /\ recipe_seq = 0
    /\ recipe_ingredients = {}
    /\ recipe_tags = {}
    /\ EmptyTables
    /\ reqs = [i \in Slots |-> Idle]

\* Recipes are created and read, one request after the other.
NextCreate ==
    \E i \in Slots :
        \/ BeginCreate(i, 0, CreatePayloads)
        \/ CreateRecipe(i)
        \/ CreateSetTags(i)
        \/ CreateIngredients(i)
        \/ CreateRepresentation(i)
        \/ BeginRetrieve(i, 0)
        \/ RetrieveRelated(i)
        \/ RetrieveIsFavorited(i)
        \/ RetrieveIsInShoppingCart(i)

SpecCreate == InitCreate /\ [][NextCreate]_vars

\* The payloads of the update runs: three that are in order and replace
\* the lines and tags in part, in whole or by more, and one without
\* ingredients.
UpdatePayloads ==
    {Payload(<<Entry(1, 2)>>, <<1>>, 1),
     Payload(<<Entry(2, 5)>>, <<2>>, 1),
     Payload(<<Entry(1, 4), Entry(3, 1)>>, <<1, 2>>, 2),
     Payload(<<>>, <<1>>, 1)}

\* The stores the update runs begin with: every recipe published with one
\* line and one tag, or with three lines and two tags.
StoredBefore ==
    {[lines |-> {[ingredient |-> 1, amount |-> 1]}, tags |-> {1}],
     [lines |-> {[ingredient |-> 1, amount |-> 1], [ingredient |-> 2, amount |-> 2],
                 [ingredient |-> 3, amount |-> 1]},
      tags |-> {1, 2}]}

InitUpdate ==
    /\ recipes = Published
    /\ recipe_seq = NumRecipes
    /\ \E before \in StoredBefore :
          /\ recipe_ingredients =
                {[recipe |-> p[1], ingredient |-> p[2].ingredient, amount |-> p[2].amount]
                    : p \in RecipeIds \X before.lines}
          /\ recipe_tags = RecipeIds \X before.tags
    /\ EmptyTables
    /\ reqs = [i \in Slots |-> Idle]

\* Recipes are updated, deleted and read, one request after the other.
NextUpdate ==
    \E i \in Slots :
        \/ BeginUpdate(i, 0, UpdatePayloads)
        \/ UpdateClearIngredients(i)
        \/ UpdateCreateIngredients(i)
        \/ UpdateSetTags(i)
        \/ UpdateSave(i)
        \/ BeginDestroy(i, 0)
        \/ DestroyRecipe(i)
        \/ BeginRetrieve(i, 0)
        \/ RetrieveRelated(i)
        \/ RetrieveIsFavorited(i)
        \/ RetrieveIsInShoppingCart(i)

SpecUpdate == InitUpdate /\ [][NextUpdate]_vars

\* The published recipes, each with one tag or both.
InitList ==
    /\ recipes = Published
    /\ recipe_seq = NumRecipes
    /\ recipe_ingredients = PublishedLines
    /\ \E tagged \in [RecipeIds -> (SUBSET TagIds) \ {{}}] :
          recipe_tags = {q \in RecipeIds \X TagIds : q[2] \in tagged[q[1]]}
    /\ EmptyTables
    /\ reqs = [i \in Slots |-> Idle]

\* The list is asked for with tag filters.
NextList ==
    \E i \in Slots :
        \/ BeginList(i, 0)
        \/ ListRecipes(i)

SpecList == InitList /\ [][NextList]_vars

\* New recipes are saved, one after the other, from the stores of InitLink.
NextSave == \E i \in Slots : SaveNew(i)

SpecSave == InitLink /\ [][NextSave]_vars

\* The payloads of the updates that run beside reads: both in order.
UpdateReadPayloads ==
    {Payload(<<Entry(2, 5)>>, <<2>>, 1),
     Payload(<<Entry(1, 4), Entry(3, 1)>>, <<1, 2>>, 2)}

\* Recipes are updated and read, two requests at a time.
NextUpdateRead ==
    \E i \in Slots :
        \/ BeginUpdate(i, 1, UpdateReadPayloads)
        \/ UpdateClearIngredients(i)
        \/ UpdateCreateIngredients(i)
        \/ UpdateSetTags(i)
        \/ UpdateSave(i)
        \/ BeginRetrieve(i, 1)
        \/ RetrieveRelated(i)
        \/ RetrieveIsFavorited(i)
        \/ RetrieveIsInShoppingCart(i)

SpecUpdateRead == InitUpdate /\ [][NextUpdateRead]_vars

\* The published recipes with any Favorite and ShoppingCart rows on the
\* target recipes, and no subscriptions or every one.
InitIsolation ==
    /\ recipes = Published
    /\ recipe_seq = NumRecipes
    /\ recipe_ingredients = PublishedLines
    /\ recipe_tags = {<<id, 1>> : id \in RecipeIds}
    /\ \E rows \in [Users \X Targets -> {0, 1}] :
          favorite = [k \in RelKeys |-> IF k[2] \in Targets THEN rows[k] ELSE 0]
    /\ \E rows \in [Users \X Targets -> {0, 1}] :
          shopping_cart = [k \in RelKeys |-> IF k[2] \in Targets THEN rows[k] ELSE 0]
    /\ \E all \in {0, 1} :
          follower = [k \in FollowKeys |-> IF k[1] = k[2] THEN 0 ELSE all]
    /\ reqs = [i \in Slots |-> Idle]

\* One read, list, download, add or remove from each such store.
NextIsolation ==
    \/ BeginRetrieve(1, 0)
    \/ RetrieveRelated(1)
    \/ RetrieveIsFavorited(1)
    \/ RetrieveIsInShoppingCart(1)
    \/ BeginListMine(1, 0)
    \/ ListRecipes(1)
    \/ BeginDownload(1, 0)
    \/ DownloadShoppingCart(1)
    \/ BeginFavorite(1, 0)
    \/ FavoriteSteps(1)
    \/ BeginShoppingCart(1, 0)
    \/ ShoppingCartGet(1)
    \/ ShoppingCartCreate(1)
    \/ ShoppingCartDelete(1)

SpecIsolation == InitIsolation /\ [][NextIsolation]_vars

(* ------------------------------------------------------------ the claims *)
RelationOps == {"favorite", "shopping_cart", "subscribe"}

TableOf(op) ==
    IF op = "favorite" THEN favorite
    ELSE IF op = "shopping_cart" THEN shopping_cart
    ELSE follower

KeyOf(r) == <<r.user, r.pk>>

SameKey(r, q) == r.op = q.op /\ r.user = q.user /\ r.pk = q.pk

IsAdd(r) == r.op \in RelationOps /\ r.method = "POST"

IsRemove(r) == r.op \in RelationOps /\ r.method = "DELETE"

Created(r) == r.pc = "done" /\ r.status = 201

AlreadyExists(r) == r.pc = "done" /\ r.status = 400 /\ r.detail = "already_exists"

NotFound(r) == r.pc = "done" /\ r.status = 400 /\ r.detail = "not_found"

NoContent(r) == r.pc = "done" /\ r.status = 204

\* Under SpecSeq the slots are the order of the requests: i is the first
\* request on its key, j the next one, and both are adds.
AddTwice(i, j) ==
    /\ i < j
    /\ IsAdd(reqs[i])
    /\ IsAdd(reqs[j])
    /\ SameKey(reqs[i], reqs[j])
    /\ reqs[i].user # reqs[i].pk \/ reqs[i].op # "subscribe"
    /\ reqs[j].pc = "done"
    /\ \A k \in Slots : k < j /\ k # i => ~SameKey(reqs[k], reqs[i])

\* C1: two adds of one key in sequence, with no remove in between: the
\* first is answered 201, the second 400 'already exists', and one row of
\* the key is stored until a later request on the key arrives.
C1_AddTwiceConflicts ==
    \A i, j \in Slots :
        AddTwice(i, j) =>
            /\ Created(reqs[i])
            /\ AlreadyExists(reqs[j])
            /\ (\A k \in Slots : k > j => ~SameKey(reqs[k], reqs[i]))
                  => TableOf(reqs[i].op)[KeyOf(reqs[i])] = 1

C1_Witness ==
    \E i, j \in Slots :
        /\ AddTwice(i, j)
        /\ reqs[i].op = "favorite"
        /\ Created(reqs[i])
        /\ AlreadyExists(reqs[j])
        /\ favorite[KeyOf(reqs[i])] = 1

\* C2: under every interleaving of add requests, no key of Favorite,
\* ShoppingCart or Follower has more than one row.
C2_AtMostOneRow ==
    /\ \A k \in RelKeys : favorite[k] <= 1 /\ shopping_cart[k] <= 1
    /\ \A k \in FollowKeys : follower[k] <= 1

\* two adds of one key ran concurrently: both passed the existence check,
\* one inserted and the other met the constraint
C2_Witness ==
    \E i, j \in Slots :
        /\ i # j
        /\ IsAdd(reqs[i])
        /\ SameKey(reqs[i], reqs[j])
        /\ Created(reqs[i])
        /\ reqs[j].pc = "done"
        /\ reqs[j].exc = "IntegrityError"
        /\ TableOf(reqs[i].op)[KeyOf(reqs[i])] = 1

\* C3: an add whose insert met the uniqueness constraint is answered
\* 'already exists', never with the store's error.
C3_RaceLoserAlreadyExists ==
    \A i \in Slots :
        (IsAdd(reqs[i]) /\ reqs[i].pc = "done" /\ reqs[i].exc = "IntegrityError")
            => AlreadyExists(reqs[i])

OtherTablesUnchanged(op) ==
    /\ op # "favorite" => favorite' = favorite
    /\ op # "shopping_cart" => shopping_cart' = shopping_cart
    /\ op # "subscribe" => follower' = follower

AllTablesUnchanged == UNCHANGED <<favorite, shopping_cart, follower>>

\* The step of remove request i that looks for the row: the existence
\* check of favorite and subscribe, the delete of shopping_cart.
RemoveLooksUp(i) ==
    /\ IsRemove(reqs[i])
    /\ reqs'[i] # reqs[i]
    /\ reqs[i].pc = (IF reqs[i].op = "shopping_cart" THEN "delete" ELSE "check")

RemoveDeletes(i) ==
    /\ IsRemove(reqs[i])
    /\ reqs'[i] # reqs[i]
    /\ reqs[i].pc = "delete"

RowsOfKeyDeleted(op, key) ==
    /\ TableOf(op)'[key] = 0
    /\ \A k \in DOMAIN TableOf(op) : k # key => TableOf(op)'[k] = TableOf(op)[k]
    /\ OtherTablesUnchanged(op)

\* C4: a remove request that finds the row of its key goes on to delete
\* the rows of that key, and of that key only, and answers 204; one that
\* finds no row answers 400 'not found' and changes no relation table.
C4_RemoveStep(i) ==
    /\ RemoveLooksUp(i) /\ ~Exists(TableOf(reqs[i].op), KeyOf(reqs[i]))
          => NotFound(reqs'[i]) /\ AllTablesUnchanged
    /\ RemoveLooksUp(i) /\ Exists(TableOf(reqs[i].op), KeyOf(reqs[i]))
          => IF reqs[i].op = "shopping_cart"
             THEN NoContent(reqs'[i]) /\ RowsOfKeyDeleted(reqs[i].op, KeyOf(reqs[i]))
             ELSE reqs'[i].pc = "delete" /\ AllTablesUnchanged
    /\ RemoveDeletes(i) /\ reqs[i].op # "shopping_cart"
          => NoContent(reqs'[i]) /\ RowsOfKeyDeleted(reqs[i].op, KeyOf(reqs[i]))

SelfFollowRejected(r) == r.pc = "done" /\ r.status = 400 /\ r.detail = "self_follow"

\* C5: a subscribe request on oneself is answered with the self-follow
\* error without reaching the existence check, and no Follower row has
\* follower = followed.
C5_NoSelfFollow ==
    /\ \A u \in Users : follower[<<u, u>>] = 0
    /\ \A i \in Slots :
          (reqs[i].op = "subscribe" /\ reqs[i].user = reqs[i].pk)
              => SelfFollowRejected(reqs[i])

C5_Witness ==
    \E i, j \in Slots :
        /\ reqs[i].op = "subscribe"
        /\ reqs[i].user = reqs[i].pk
        /\ SelfFollowRejected(reqs[i])
        /\ reqs[j].op = "subscribe"
        /\ Created(reqs[j])

HasRow(table, user, recipe) == user \in Users /\ table[<<user, recipe>>] >= 1

\* C6: whatever adds and removes came before, a read of recipe R by user U
\* reports is_favorited exactly when Favorite holds a row (U, R) at the
\* time of the field's query, is_in_shopping_cart exactly when ShoppingCart
\* holds a row (U, R), and reports both false to an anonymous requester.
C6_ReadStep(i) ==
    /\ (reqs[i].op = "retrieve" /\ reqs[i].pc = "is_favorited" /\ reqs'[i] # reqs[i])
          => reqs'[i].is_favorited = HasRow(favorite, reqs[i].user, reqs[i].pk)
    /\ (reqs[i].op = "retrieve" /\ reqs[i].pc = "is_in_shopping_cart"
            /\ reqs'[i] # reqs[i])
          => /\ reqs'[i].is_in_shopping_cart =
                    HasRow(shopping_cart, reqs[i].user, reqs[i].pk)
             /\ reqs'[i].is_favorited = reqs[i].is_favorited
             /\ reqs'[i].status = 200

C6_FlagsMatchRows == [][\A i \in Slots : C6_ReadStep(i)]_vars

\* a read by the user who favorited the recipe and has it in no cart
C6_Witness ==
    \E i, j \in Slots :
        /\ reqs[j].op = "favorite"
        /\ Created(reqs[j])
        /\ reqs[i].op = "retrieve"
        /\ reqs[i].pc = "done"
        /\ reqs[i].user = reqs[j].user
        /\ reqs[i].pk = reqs[j].pk
        /\ reqs[i].is_favorited
        /\ ~reqs[i].is_in_shopping_cart

Downloaded(r) == r.op = "download_shopping_cart" /\ r.pc = "done" /\ r.status = 200

InCart(user, recipe) == shopping_cart[<<user, recipe>>] >= 1

IsOf(ingredient, name, unit) ==
    Ingredient[ingredient].name = name /\ Ingredient[ingredient].measurement_unit = unit

\* the amount recipe `recipe` asks of the ingredient (name, unit), 0 if none
AmountIn(recipe, name, unit) ==
    LET ls == {l \in recipe_ingredients :
                  l.recipe = recipe /\ IsOf(l.ingredient, name, unit)}
    IN IF ls = {} THEN 0 ELSE (CHOOSE l \in ls : TRUE).amount

\* the amounts of (name, unit) over the recipes 1..n that are in the cart
RECURSIVE CartTotal(_, _, _, _)
CartTotal(user, name, unit, n) ==
    IF n = 0 THEN 0
    ELSE CartTotal(user, name, unit, n - 1)
            + (IF InCart(user, n) THEN AmountIn(n, name, unit) ELSE 0)

\* C7: the download lists one entry per (name, unit) pair of the lines of
\* the requester's cart recipes, with the sum of those lines' amounts, none
\* for lines of other recipes, in ascending order of name.
C7_Entries(r) ==
    LET items == r.items IN
    /\ \A a, b \in DOMAIN items :
          a # b => <<items[a].name, items[a].measurement_unit>>
                      # <<items[b].name, items[b].measurement_unit>>
    /\ \A g \in IngredientIds :
          LET name == Ingredient[g].name
              unit == Ingredient[g].measurement_unit
              total == CartTotal(r.user, name, unit, NumRecipes)
          IN IF total = 0
             THEN ~\E a \in DOMAIN items :
                      items[a].name = name /\ items[a].measurement_unit = unit
             ELSE \E a \in DOMAIN items :
                      /\ items[a].name = name
                      /\ items[a].measurement_unit = unit
                      /\ items[a].total_amount = total
    /\ \A a \in DOMAIN items :
          \E g \in IngredientIds : IsOf(g, items[a].name, items[a].measurement_unit)
    /\ \A a, b \in DOMAIN items :
          a < b => NameRank(items[a].name) <= NameRank(items[b].name)

C7_CartAggregation == \A i \in Slots : Downloaded(reqs[i]) => C7_Entries(reqs[i])

\* a download whose flour entry sums the lines of two cart recipes
C7_Witness ==
    \E i \in Slots :
        /\ Downloaded(reqs[i])
        /\ \E a \in DOMAIN reqs[i].items :
              /\ reqs[i].items[a].name = "flour"
              /\ reqs[i].items[a].measurement_unit = "g"
              /\ reqs[i].items[a].total_amount = 5
        /\ Cardinality({id \in RecipeIds : InCart(reqs[i].user, id)}) = 2

\* "- {name} {amount} {unit}" with the amount as the integer sum
IntegerLine(item) ==
    "- " \o item.name \o " " \o ToString(item.total_amount)
         \o " " \o item.measurement_unit

\* C8: the body of the download is the lines "- {name} {sum} {unit}", the
\* sum written as an integer, joined by newlines; an empty cart gives an
\* empty body.
C8_IntegerLines ==
    \A i \in Slots :
        Downloaded(reqs[i]) =>
            reqs[i].text = Join([k \in DOMAIN reqs[i].items |->
                                    IntegerLine(reqs[i].items[k])])

\* C9: no two distinct recipes have the same short_link.
C9_UniqueShortLinks ==
    \A a, b \in DOMAIN recipes :
        (a # b /\ recipes[a].short_link # NoLink)
            => recipes[a].short_link # recipes[b].short_link

GotLink(r) == r.op = "get_link" /\ r.pc = "done" /\ r.status = 200

\* C10: a short_link that is set stays as it is through every get-link
\* request and every update of the recipe, renaming included, and every
\* get-link request for the recipe is answered with it.
C10_Step ==
    /\ \A id \in DOMAIN recipes :
          recipes[id].short_link # NoLink
              => /\ id \in DOMAIN recipes'
                 /\ recipes'[id].short_link = recipes[id].short_link
    /\ \A i \in Slots :
          (reqs[i].op = "get_link" /\ reqs[i].pc = "get" /\ reqs'[i] # reqs[i]
              /\ reqs[i].pk \in DOMAIN recipes
              /\ recipes[reqs[i].pk].short_link # NoLink)
              => /\ GotLink(reqs'[i])
                 /\ reqs'[i].link = recipes[reqs[i].pk].short_link

C10_ShortLinkImmutable == [][C10_Step]_vars

\* a recipe was renamed by an update, keeps the link made from its first
\* name, and a get-link request was answered with that link
C10_Witness ==
    \E id \in DOMAIN recipes, i, j \in Slots :
        /\ reqs[i].op = "update"
        /\ reqs[i].pk = id
        /\ reqs[i].pc = "done"
        /\ reqs[i].status = 200
        /\ recipes[id].short_link
              # ShortCode(FullName(recipes[id].author), recipes[id].name)
        /\ GotLink(reqs[j])
        /\ reqs[j].pk = id
        /\ reqs[j].link = recipes[id].short_link
        /\ reqs[j].link # NoLink

\* C11: short-link generation is lazy; creating a recipe stores it with its
\* short_link unset.
C11_CreateLeavesLinkUnset ==
    [][\A id \in DOMAIN recipes' \ DOMAIN recipes :
            recipes'[id].short_link = NoLink]_vars

Owners(code) == {id \in DOMAIN recipes : recipes[id].short_link = code}

\* C12: resolving the short code of a recipe redirects to that recipe, and
\* resolving a code no recipe has redirects to the not-found location.
C12_ResolveStep(i) ==
    (reqs[i].op = "resolve" /\ reqs[i].pc = "get" /\ reqs'[i] # reqs[i])
        => /\ reqs'[i].status = 302
           /\ \A id \in Owners(reqs[i].short_link) :
                 reqs'[i].location = RedirectTo(id)
           /\ Owners(reqs[i].short_link) = {} => reqs'[i].location = "/404"

C12_RoundTrip == [][\A i \in Slots : C12_ResolveStep(i)]_vars

CreatedRecipe(r) == r.op = "create" /\ r.pc = "done" /\ r.status = 201

Retrieved(r) == r.op = "retrieve" /\ r.pc = "done" /\ r.status = 200

\* C13: a created recipe has one line per entry of the payload, with the
\* entry's ingredient and amount, and the payload's tags; its author is the
\* requester; and the body of the create answer is the body of a detail
\* read of the recipe by the same requester that follows it.
C13_CreateRoundTrip ==
    \A i \in Slots :
        CreatedRecipe(reqs[i]) =>
            LET r == reqs[i] IN
            /\ r.pk \in DOMAIN recipes
            /\ recipes[r.pk].author = r.user
            /\ \A k \in DOMAIN r.data.ingredients :
                  [recipe |-> r.pk, ingredient |-> r.data.ingredients[k].id,
                   amount |-> r.data.ingredients[k].amount] \in recipe_ingredients
            /\ Cardinality({l \in recipe_ingredients : l.recipe = r.pk})
                  = Len(r.data.ingredients)
            /\ {q \in recipe_tags : q[1] = r.pk}
                  = {<<r.pk, t>> : t \in Range(r.data.tags)}
            /\ Cardinality({q \in recipe_tags : q[1] = r.pk}) = Len(r.data.tags)
            /\ Cardinality(r.body.ingredients) = Len(r.data.ingredients)
            /\ Cardinality(r.body.tags) = Len(r.data.tags)
            /\ \A j \in Slots :
                  (Retrieved(reqs[j]) /\ reqs[j].pk = r.pk /\ reqs[j].user = r.user)
                      => /\ reqs[j].body = r.body
                         /\ reqs[j].is_favorited = r.is_favorited
                         /\ reqs[j].is_in_shopping_cart = r.is_in_shopping_cart

\* a recipe of two lines and two tags was created and then read by its author
C13_Witness ==
    \E i, j \in Slots :
        /\ CreatedRecipe(reqs[i])
        /\ Len(reqs[i].data.ingredients) = 2
        /\ Len(reqs[i].data.tags) = 2
        /\ Retrieved(reqs[j])
        /\ reqs[j].pk = reqs[i].pk
        /\ reqs[j].user = reqs[i].user
        /\ Cardinality(reqs[j].body.ingredients) = 2

\* the first rule of the list that the payload breaks, "" if it breaks none
FirstRuleBroken(data) ==
    IF data.ingredients = <<>> THEN "ingredients"
    ELSE IF HasDuplicates(Ids(data.ingredients)) THEN "ingredients"
    ELSE IF data.tags = <<>> THEN "tags"
    ELSE IF HasDuplicates(data.tags) THEN "tags"
    ELSE IF data.cooking_time < 1 THEN "cooking_time"
    ELSE IF \E k \in DOMAIN data.ingredients : data.ingredients[k].amount < 1
         THEN "amount"
    ELSE ""

\* C14: a payload that breaks a rule is rejected with the error of the first
\* rule it breaks, the rules taken in the order ingredients non-empty,
\* ingredients distinct, tags non-empty, tags distinct, cooking_time >= 1,
\* amounts >= 1.
C14_ValidationOrder ==
    \A i \in Slots :
        (reqs[i].op = "create" /\ FirstRuleBroken(reqs[i].data) # "")
            => /\ reqs[i].pc = "done"
               /\ reqs[i].status = 400
               /\ reqs[i].detail = FirstRuleBroken(reqs[i].data)

\* C15: every stored ingredient line has an amount of at least 1.
C15_AmountsPositive == \A l \in recipe_ingredients : l.amount >= 1

\* C16: a create request that failed after its Recipe row was inserted leaves
\* no Recipe row, no tag row and no ingredient line behind.
C16_CreateAllOrNothing ==
    \A i \in Slots :
        (reqs[i].op = "create" /\ reqs[i].pc = "done" /\ reqs[i].status = 500
            /\ reqs[i].pk # 0)
            => /\ reqs[i].pk \notin DOMAIN recipes
               /\ \A q \in recipe_tags : q[1] # reqs[i].pk
               /\ \A l \in recipe_ingredients : l.recipe # reqs[i].pk

LinesOf(lines, id) ==
    {[ingredient |-> l.ingredient, amount |-> l.amount]
        : l \in {m \in lines : m.recipe = id}}

PayloadLines(data) ==
    {[ingredient |-> data.ingredients[k].id, amount |-> data.ingredients[k].amount]
        : k \in DOMAIN data.ingredients}

\* C17: the step that completes an update of a recipe leaves the recipe with
\* exactly the lines of the payload and exactly the tags of the payload.
C17_UpdateStep(i) ==
    (reqs[i].op = "update" /\ reqs[i].pc # "done"
        /\ reqs'[i].pc = "done" /\ reqs'[i].status = 200)
        => LET r == reqs[i] IN
           /\ LinesOf(recipe_ingredients', r.pk) = PayloadLines(r.data)
           /\ {q[2] : q \in {p \in recipe_tags' : p[1] = r.pk}} = Range(r.data.tags)

C17_UpdateReplaces == [][\A i \in Slots : C17_UpdateStep(i)]_vars

\* an update was answered 200 that took lines and tags away from a recipe
\* of three lines and two tags
C17_Witness ==
    \E i \in Slots :
        /\ reqs[i].op = "update"
        /\ reqs[i].pc = "done"
        /\ reqs[i].status = 200
        /\ reqs[i].data.ingredients = <<Entry(2, 5)>>
        /\ LinesOf(recipe_ingredients, reqs[i].pk) = {[ingredient |-> 2, amount |-> 5]}
        /\ \E other \in RecipeIds :
              Cardinality(LinesOf(recipe_ingredients, other)) = 3

\* C18: an update or delete of a recipe by an authenticated user who is not
\* its author is answered with the authorization error.
C18_NonAuthorForbidden ==
    \A i \in Slots :
        (reqs[i].op \in {"update", "destroy"}
            /\ reqs[i].pk \in DOMAIN recipes
            /\ recipes[reqs[i].pk].author # reqs[i].user)
            => /\ reqs[i].pc = "done"
               /\ reqs[i].status = 403

HasTagIn(id, requested) ==
    \E q \in recipe_tags : q[1] = id /\ Tag[q[2]].slug \in requested

ListsTagged(r) ==
    /\ r.pc = "done"
    /\ r.status = 200
    /\ \A id \in DOMAIN recipes :
          r.results[id] = IF HasTagIn(id, r.slugs) THEN 1 ELSE 0

\* C19, as stated: for every requested set of slugs the list holds exactly
\* the recipes with a tag whose slug is requested, each once.
C19_EverySlugSet ==
    \A i \in Slots :
        (reqs[i].op = "list" /\ reqs[i].pc = "done" /\ reqs[i].slugs # {})
            => ListsTagged(reqs[i])

\* C19: for every requested set of slugs of tags of the catalogue the list
\* holds exactly the recipes with a tag whose slug is requested, each once.
C19_TagFilter ==
    \A i \in Slots :
        (reqs[i].op = "list" /\ reqs[i].pc = "done" /\ reqs[i].slugs # {}
            /\ reqs[i].slugs \subseteq Slugs)
            => ListsTagged(reqs[i])

\* both slugs were asked for; one recipe has both tags and is listed once,
\* and a request for one slug left a recipe out
C19_Witness ==
    \E i, j \in Slots, id, other \in DOMAIN recipes :
        /\ reqs[i].op = "list"
        /\ reqs[i].pc = "done"
        /\ reqs[i].slugs = Slugs
        /\ Cardinality({q \in recipe_tags : q[1] = id}) = 2
        /\ reqs[i].results[id] = 1
        /\ reqs[j].op = "list"
        /\ reqs[j].pc = "done"
        /\ reqs[j].status = 200
        /\ Cardinality(reqs[j].slugs) = 1
        /\ reqs[j].results[other] = 0

\* C20: a save whose writes are refused calls super().save() at most five
\* times; refused five times it raises the generation error and leaves the
\* recipe without short_link and the store as it was; refused fewer times
\* it stores the recipe on the next attempt.
C20_SaveStep(i) ==
    (reqs[i].op = "none" /\ reqs'[i].op = "save") =>
        LET r == reqs'[i] IN
        /\ r.pc = "done"
        /\ r.attempts <= SaveAttempts
        /\ r.refusals >= SaveAttempts
              => /\ r.attempts = SaveAttempts
                 /\ r.exc = "ValidationError"
                 /\ r.instance.short_link = NoLink
                 /\ recipes' = recipes
        /\ r.refusals < SaveAttempts
              => /\ r.attempts = r.refusals + 1
                 /\ r.exc = ""
                 /\ r.pk \in DOMAIN recipes' \ DOMAIN recipes
                 /\ recipes'[r.pk].short_link = r.instance.short_link
                 /\ r.instance.short_link # NoLink

C20_BoundedAttempts == [][\A i \in Slots : C20_SaveStep(i)]_vars

\* one save gave up after five refused writes, another was stored on its
\* fifth attempt
C20_Witness ==
    \E i, j \in Slots :
        /\ reqs[i].op = "save"
        /\ reqs[i].refusals > SaveAttempts
        /\ reqs[i].exc = "ValidationError"
        /\ reqs[i].attempts = SaveAttempts
        /\ reqs[j].op = "save"
        /\ reqs[j].refusals = SaveAttempts - 1
        /\ reqs[j].attempts = SaveAttempts
        /\ reqs[j].exc = ""

\* C21: every attempt of a save after a refused one is made with a code
\* other than the refused one.
C21_RetryPerturbs ==
    \A i \in Slots :
        reqs[i].op = "save" =>
            \A k \in 1..(Len(reqs[i].codes) - 1) :
                reqs[i].codes[k + 1] # reqs[i].codes[k]

BodyLines(body) ==
    {[ingredient |-> l.id, amount |-> l.amount] : l \in body.ingredients}

\* C22: the lines and tags a read of a recipe reports are those the recipe
\* was published with or those of the payload of an update of the recipe,
\* whole.
C22_ReadsSeeWholeRecipe ==
    \A j \in Slots :
        (reqs[j].op = "retrieve" /\ reqs[j].body.id # 0)
            => \/ \E before \in StoredBefore :
                     /\ BodyLines(reqs[j].body) = before.lines
                     /\ reqs[j].body.tags = before.tags
               \/ \E k \in Slots :
                     /\ reqs[k].op = "update"
                     /\ reqs[k].pk = reqs[j].pk
                     /\ BodyLines(reqs[j].body) = PayloadLines(reqs[k].data)
                     /\ reqs[j].body.tags = Range(reqs[k].data.tags)

\* C23: every stored ingredient line is a line of a stored recipe.
C23_NoOrphanLines == \A l \in recipe_ingredients : l.recipe \in DOMAIN recipes

Quiescent == \A i \in Slots : reqs[i].pc \in {"idle", "done"}

\* C24: with no request under way, every stored recipe has a line and a tag,
\* and no two lines of a recipe name the same ingredient.
C24_RecipesComplete ==
    Quiescent =>
        \A id \in DOMAIN recipes :
            /\ \E l \in recipe_ingredients : l.recipe = id
            /\ \E q \in recipe_tags : q[1] = id
            /\ \A l, m \in recipe_ingredients :
                  (l.recipe = id /\ m.recipe = id /\ l.ingredient = m.ingredient)
                      => l = m

\* the rows of the other users
OthersRowsUnchanged(user) ==
    \A k \in RelKeys :
        k[1] # user => /\ favorite'[k] = favorite[k]
                       /\ shopping_cart'[k] = shopping_cart[k]

\* recipe `id` passes the requester's own rows for the flags asked
OwnMatch(r, id) ==
    /\ r.favorited_only => HasRow(favorite, r.user, id)
    /\ r.in_cart_only => HasRow(shopping_cart, r.user, id)

\* the entries of the download, from the requester's own cart rows, the
\* recipes and their lines
OwnCartEntries(user, items) ==
    \A g \in IngredientIds :
        LET name == Ingredient[g].name
            unit == Ingredient[g].measurement_unit
            found == {a \in DOMAIN items :
                         items[a].name = name /\ items[a].measurement_unit = unit}
        IN /\ (found # {}) = (CartTotal(user, name, unit, NumRecipes) > 0)
           /\ \A a \in found :
                 items[a].total_amount = CartTotal(user, name, unit, NumRecipes)

\* C25: what user U is answered is a function of U's own Favorite and
\* ShoppingCart rows, the recipes and the ingredient lines, whatever rows the
\* other users hold: both flags of a read, the favorited-only and in-cart-only
\* lists and the cart download; and an add or remove by U changes no row of
\* another user, no row of the other relation and no subscription.
C25_Step(i) ==
    LET r == reqs[i]
        answered == reqs'[i] # r /\ reqs'[i].pc = "done"
    IN /\ (r.op = "retrieve" /\ r.pc = "is_in_shopping_cart" /\ answered)
             => /\ reqs'[i].is_favorited = HasRow(favorite, r.user, r.pk)
                /\ reqs'[i].is_in_shopping_cart = HasRow(shopping_cart, r.user, r.pk)
       /\ (r.op = "list" /\ (r.favorited_only \/ r.in_cart_only) /\ answered)
             => reqs'[i].results =
                    [id \in DOMAIN recipes |-> IF OwnMatch(r, id) THEN 1 ELSE 0]
       /\ (r.op = "download_shopping_cart" /\ answered /\ reqs'[i].status = 200)
             => OwnCartEntries(r.user, reqs'[i].items)
       /\ (r.op \in {"favorite", "shopping_cart"} /\ reqs'[i] # r)
             => /\ OthersRowsUnchanged(r.user)
                /\ OtherTablesUnchanged(r.op)

C25_Isolation == [][\A i \in Slots : C25_Step(i)]_vars

\* a favorited-only list answered without the recipe another user favorited
C25_Witness ==
    \E i \in Slots, other \in Users :
        /\ reqs[i].op = "list"
        /\ reqs[i].pc = "done"
        /\ reqs[i].favorited_only
        /\ IsAuthenticated(reqs[i].user)
        /\ other # reqs[i].user
        /\ \E id \in DOMAIN recipes :
              /\ HasRow(favorite, other, id)
              /\ ~HasRow(favorite, reqs[i].user, id)
              /\ reqs[i].results[id] = 0

====
